---- MODULE Spec2Model ----
(***************************************************************************)
(* Model of the entity-resolution core of server.js: the per-category     *)
(* Fuse caches filled by initAllCaches, resolveTerm, and the segments of   *)
(* the POST /api/query handler between its awaits.                         *)
(*                                                                         *)
(* Scores are in hundredths (0.4 -> 40, 0.05 -> 5).  Fuse.js is an         *)
(* external library: its score for a (term, text) pair is the variable     *)
(* fuseScore, fixed for the life of the process.                           *)
(*                                                                         *)
(* The functions of the repository that the server's handler does not run  *)
(* step by step (the retrying getAiSql of ai.js, ...) have their own       *)
(* variables and their own specifications further down.                    *)
(***************************************************************************)
EXTENDS Integers, Sequences, FiniteSets, TLC

VARIABLES db, fuseScore, queried, caches, initPc, failedAt,
          reqPc, userQuery, extraction, entities, resolutions, contextMessages,
          finalPrompt, clientHeld, leaked, response

\* the summarize stage: which of the two versions of ai.js is in place, the
\* maxRetries its getAiSummary runs with, the rows client.query returned, and
\* how getAiSummary settled
VARIABLES aiVersion, summaryMaxRetries, resultRows, summary

\* getAiSql (the retrying version): the loop's position, its counter and
\* parameter, what it has done so far, and how it ended
VARIABLES sqlPc, attempt, maxRetries, sqlLog, sqlResult

sqlVars == <<sqlPc, attempt, maxRetries, sqlLog, sqlResult>>

\* load_excel main: the rows of the sheet, the position of the loader (which
\* run over the sheet, which row), the tables of the store it writes with
\* their id generator, and the tables as the first run left them
VARIABLES sheet, etlPc, etlRun, etlRow, tables, afterFirstRun

etlVars == <<sheet, etlPc, etlRun, etlRow, tables, afterFirstRun>>

\* generatePartialAliases: the canonical name it is called with, whether it
\* has returned, and the array it returned
VARIABLES canonicalName, aliasPc, aliases

aliasVars == <<canonicalName, aliasPc, aliases>>

\* the page of public/script.js: the position of its submit handler, the
\* value of the query input, the body of the request in flight, the response
\* fetch resolved with, what the elements of the page show, and whether a
\* chart exists
VARIABLES uiPc, queryInput, requestBody, httpResponse, display, chartInstance

uiVars == <<uiPc, queryInput, requestBody, httpResponse, display, chartInstance>>

\* the variables the server's actions leave alone
toolVars == <<sqlVars, etlVars, aliasVars, uiVars>>

\* the variables of the server
serverVars == <<db, fuseScore, queried, caches, initPc, failedAt,
                reqPc, userQuery, extraction, entities, resolutions, contextMessages,
                finalPrompt, clientHeld, leaked, response,
                aiVersion, summaryMaxRetries, resultRows, summary>>

vars == <<serverVars, toolVars>>

(* ---------------------------- bounds ----------------------------------- *)

\* longest canonical name generatePartialAliases is given in the model
MaxNameLen == 4

\* longest sheet load_excel reads in the model
MaxSheetRows == 2

\* largest maxRetries getAiSql is called with in the model
MaxRetriesBound == 3

\* longest LLM reply, in pieces, in the model
MaxContent == 4

\* longest term list the extractor returns in the model
MaxEntities == 2

\* clients the connection pool hands out at most (new Pool() is given no
\* max, so the library's default applies; the model's pool is smaller)
PoolMax == 1

(* ----------------------- program constants ----------------------------- *)

\* allMatches.filter(m => m.score < 0.4)
Floor == 40
\* threshold = bestScore + 0.05
Margin == 5
\* topCandidates.slice(0, 5)
MaxCandidates == 5

(* ------------------------- backing store ------------------------------- *)

\* dim_instructor: UNIQUE(first_name, last_name, region); the generated
\* column full_name is first_name || ' ' || last_name.
InstructorRows ==
  { [first_name |-> "Robert", last_name |-> "Smith", region |-> "US"],
    [first_name |-> "Robert", last_name |-> "Smith", region |-> "India"],
    [first_name |-> "Robert", last_name |-> "Jones", region |-> "US"] }

\* dim_class: UNIQUE(class_name, region)
ClassRows ==
  { [class_name |-> "Robert's Seminar", region |-> "US"],
    [class_name |-> "Robert's Seminar", region |-> "India"] }

\* dim_domain: domain_name UNIQUE
DomainRows == { [domain_name |-> "Backend"] }

\* dim_topic: topic_code UNIQUE
TopicRows == { [topic_code |-> "Live Class"] }

full_name(row) ==
  IF row.first_name = "Robert" /\ row.last_name = "Smith" THEN "Robert Smith"
  ELSE IF row.first_name = "Robert" /\ row.last_name = "Jones" THEN "Robert Jones"
  ELSE "?"

\* every canonical text an index can hold
Texts == {"Robert Smith", "Robert Jones", "Robert's Seminar", "Backend", "Live Class"}

\* all orderings of a finite set as sequences without repetition
Orderings(S) ==
  { s \in [1..Cardinality(S) -> S] : \A i, j \in 1..Cardinality(S) : s[i] = s[j] => i = j }

\* a table is any set of distinct rows (the UNIQUE constraint is on the whole
\* row here: every column of the row universes is part of the key), scanned
\* by a SELECT in one fixed order
Tables(Rows) == { CHOOSE s \in Orderings(R) : TRUE : R \in SUBSET Rows }

\* the four SELECTs of initAllCaches: the rows in table order, projected on
\* the selected columns
SelectInstructors ==
  [i \in 1..Len(db.dim_instructor) |->
     [first_name |-> db.dim_instructor[i].first_name,
      last_name  |-> db.dim_instructor[i].last_name,
      full_name  |-> full_name(db.dim_instructor[i])]]

SelectDomains ==
  [i \in 1..Len(db.dim_domain) |-> [domain_name |-> db.dim_domain[i].domain_name]]

SelectClasses ==
  [i \in 1..Len(db.dim_class) |-> [class_name |-> db.dim_class[i].class_name]]

SelectTopics ==
  [i \in 1..Len(db.dim_topic) |-> [topic_code |-> db.dim_topic[i].topic_code]]

(* ---------------------------- Fuse.js ---------------------------------- *)

\* what the extractor's JSON can hold as an element of "entities"
JsonNull == "<json null>"
BlankTerm == " "
StringTerms == {"Robert", "Backend", "Zzyzxq", BlankTerm}
Terms == StringTerms \cup {JsonNull}

NoMatch == -1

\* caches.<category> = null
Null == [isFuse |-> FALSE, docs |-> <<>>, key |-> ""]

\* new Fuse(rows, {includeScore: true, threshold: 0.4, keys: [...]}); key is
\* the field holding the text the index is searched on (the other instructor
\* keys, first_name and last_name, are functions of full_name here)
Fuse(rows, key) == [isFuse |-> TRUE, docs |-> rows, key |-> key]

\* Array.prototype.sort((a, b) => a.score - b.score): ascending by score,
\* elements of equal score in their original order (the sort is stable)
SortOmitted(s) == s

SortByScore(s) ==
  LET n == Len(s)
      rank(i) == Cardinality({ j \in 1..n :
                    \/ s[j].score < s[i].score
                    \/ s[j].score = s[i].score /\ j < i }) + 1
  IN  [k \in 1..n |-> s[CHOOSE i \in 1..n : rank(i) = k]]

\* the library's default result order (shouldSort): best score first, equal
\* scores in document order
FuseSortFn(s) ==
  LET n == Len(s)
      rank(i) == Cardinality({ j \in 1..n :
                    \/ s[j].score < s[i].score
                    \/ s[j].score = s[i].score /\ j < i }) + 1
  IN  [k \in 1..n |-> s[CHOOSE i \in 1..n : rank(i) = k]]

\* fuse.search(term) for a string term: one result {item, score} per document
\* the library matches
FuseSearch(fuse, term) ==
  LET scored == [i \in 1..Len(fuse.docs) |->
                   [item |-> fuse.docs[i],
                    score |-> fuseScore[term][fuse.docs[i][fuse.key]]]]
  IN  FuseSortFn(SelectSeq(scored, LAMBDA r : r.score # NoMatch))

\* fuse.search(term) dereferences a term that is not a string and throws
SearchThrows(term) == term = JsonNull

(* --------------------------- resolveTerm ------------------------------- *)

\* the four collect(...) calls, in the order resolveTerm makes them
CollectCalls ==
  << [cache |-> "instructors", type |-> "instructor", field |-> "full_name"],
     [cache |-> "domains",     type |-> "domain",     field |-> "domain_name"],
     [cache |-> "classes",     type |-> "class",      field |-> "class_name"],
     [cache |-> "topics",      type |-> "topic",      field |-> "topic_code"] >>

CacheNames == {"instructors", "domains", "classes", "topics"}

\* collect(fuse, type, field): nothing when the cache is null, else one
\* {category, value, score} per search result, in result order
collect(fuse, type, field, term) ==
  IF ~fuse.isFuse THEN <<>>
  ELSE LET results == FuseSearch(fuse, term)
       IN  [i \in 1..Len(results) |->
              [category |-> type, value |-> results[i].item[field],
               score |-> results[i].score]]

CollectedWithoutTopics(term) ==
  LET c(k) == collect(caches[CollectCalls[k].cache], CollectCalls[k].type,
                      CollectCalls[k].field, term)
  IN  c(1) \o c(2) \o c(3)

\* allMatches after the four collect calls
Collected(term) ==
  LET c(k) == collect(caches[CollectCalls[k].cache], CollectCalls[k].type,
                      CollectCalls[k].field, term)
  IN  c(1) \o c(2) \o c(3) \o c(4)

\* number of fuse.search calls the four collect calls make
SearchCalls == Cardinality({ k \in 1..4 : caches[CollectCalls[k].cache].isFuse })

\* allMatches.filter(m => m.score < 0.4)
BelowFloorInclusive(m) == m.score <= Floor

BelowFloor(m) == m.score < Floor

\* allMatches.filter(m => m.score <= threshold)
WithinMarginStrict(m, threshold) == m.score < threshold

WithinMargin(m, threshold) == m.score <= threshold

\* topCandidates.slice(0, 5)
SliceOmitted(s) == s

Slice(s) == SubSeq(s, 1, IF Len(s) < MaxCandidates THEN Len(s) ELSE MaxCandidates)

TopCandidatesOfBestCategory(collected) ==
  LET allMatches == SortByScore(SelectSeq(collected, BelowFloor))
  IN  IF Len(allMatches) = 0 THEN <<>>
      ELSE LET bestScore == allMatches[1].score
               threshold == bestScore + Margin
           IN  SelectSeq(allMatches, LAMBDA m : /\ WithinMargin(m, threshold)
                                                /\ m.category = allMatches[1].category)

\* lines 100-117: filter, sort, empty check, margin filter; the value of
\* topCandidates (empty on the early return)
TopCandidates(collected) ==
  LET allMatches == SortByScore(SelectSeq(collected, BelowFloor))
  IN  IF Len(allMatches) = 0 THEN <<>>
      ELSE LET bestScore == allMatches[1].score
               threshold == bestScore + Margin
           IN  SelectSeq(allMatches, LAMBDA m : WithinMargin(m, threshold))

\* lines 100-120: the value returned
Rank(collected) == Slice(TopCandidates(collected))

resolveTermUnguarded(term) ==
  IF (SearchThrows(term) /\ SearchCalls > 0) \/ SearchCalls < 4
  THEN [term |-> term, threw |-> TRUE, calls |-> 1, collected |-> <<>>,
        topCandidates |-> <<>>, candidates |-> <<>>]
  ELSE [term |-> term, threw |-> FALSE, calls |-> SearchCalls,
        collected |-> Collected(term),
        topCandidates |-> TopCandidates(Collected(term)),
        candidates |-> Rank(Collected(term))]

\* resolveTerm(term): threw is TRUE when a search call throws out of it;
\* collected is allMatches before the floor filter, topCandidates the local
\* of that name, calls the number of fuse.search calls made
resolveTerm(term) ==
  IF SearchThrows(term) /\ SearchCalls > 0
  THEN [term |-> term, threw |-> TRUE, calls |-> 1, collected |-> <<>>,
        topCandidates |-> <<>>, candidates |-> <<>>]
  ELSE [term |-> term, threw |-> FALSE, calls |-> SearchCalls,
        collected |-> Collected(term),
        topCandidates |-> TopCandidates(Collected(term)),
        candidates |-> Rank(Collected(term))]

(* ------------------------- initAllCaches ------------------------------- *)

\* pool.query and pool.connect are served only while the pool has a client
\* that is not checked out; without one they wait (no timeout is configured)
PoolHasClient == leaked < PoolMax

\* the order of the awaited pool.query calls
LoadOrder == <<"instructors", "domains", "classes", "topics">>

NextLoad(c) ==
  IF c = "instructors" THEN "domains"
  ELSE IF c = "domains" THEN "classes"
  ELSE IF c = "classes" THEN "topics"
  ELSE "done"

BuiltWithoutLastRow(c) ==
  LET most(rows) == SubSeq(rows, 1, Len(rows) - 1)
  IN  IF c = "instructors" THEN Fuse(most(SelectInstructors), "full_name")
      ELSE IF c = "domains" THEN Fuse(most(SelectDomains), "domain_name")
      ELSE IF c = "classes" THEN Fuse(most(SelectClasses), "class_name")
      ELSE Fuse(most(SelectTopics), "topic_code")

\* the index assigned to caches.<c>: new Fuse over the rows of its query
Built(c) ==
  IF c = "instructors" THEN Fuse(SelectInstructors, "full_name")
  ELSE IF c = "domains" THEN Fuse(SelectDomains, "domain_name")
  ELSE IF c = "classes" THEN Fuse(SelectClasses, "class_name")
  ELSE Fuse(SelectTopics, "topic_code")

\* the awaited query for category initPc resolves: the index is built and
\* assigned, and the next query is issued; queried lists the categories whose
\* SELECT has been handed to pool.query so far
QueryResolves ==
  /\ initPc \in CacheNames
  /\ PoolHasClient
  /\ caches' = [caches EXCEPT ![initPc] = Built(initPc)]
  /\ initPc' = NextLoad(initPc)
  /\ queried' = IF NextLoad(initPc) = "done" THEN queried
                ELSE Append(queried, NextLoad(initPc))
  /\ UNCHANGED <<toolVars, aiVersion, summaryMaxRetries, resultRows, summary, db, fuseScore, leaked, finalPrompt, extraction, failedAt, reqPc, userQuery, entities,
                 resolutions, contextMessages, clientHeld, response>>

QueryRejectsUncaught ==
  /\ initPc \in CacheNames
  /\ PoolHasClient
  /\ failedAt' = initPc
  /\ initPc' = "rejected"
  /\ UNCHANGED <<toolVars, aiVersion, summaryMaxRetries, resultRows, summary, db, fuseScore, leaked, queried, finalPrompt, extraction, caches, reqPc, userQuery, entities,
                 resolutions, contextMessages, clientHeld, response>>

\* the awaited query rejects, or new Fuse throws on its rows: control goes to
\* the single catch of initAllCaches, which logs and returns
QueryRejects ==
  /\ initPc \in CacheNames
  /\ PoolHasClient
  /\ failedAt' = initPc
  /\ initPc' = "done"
  /\ UNCHANGED <<toolVars, aiVersion, summaryMaxRetries, resultRows, summary, db, fuseScore, leaked, queried, finalPrompt, extraction, caches, reqPc, userQuery, entities,
                 resolutions, contextMessages, clientHeld, response>>

(* --------------------------- getAiSummary ------------------------------ *)

\* data: the number of rows, or NoData for a missing (null, undefined) data
NoData == -1
RowCounts == {0, 1, 6}

\* the data getAiSummary can be called with: missing, empty, and lengths on
\* both sides of the prompts' cut-offs (5 rows, 50 rows)
SummaryData == {NoData, 0, 1, 6, 51}

\* getAiSummary(userQuery, sqlQuery, data, maxRetries = 2)
SummaryMaxRetries == 2

\* how one awaited groq.chat.completions.create settles: rejected with status
\* 503, with another status, without one, resolved without content, or
\* resolved with a text
SummaryOutcomes == {"rejected_503", "rejected_429", "rejected_network", "no_content", "content"}

\* the outcomes of the calls a run may make, one per attempt
OutcomeLists(n) == [1..n -> SummaryOutcomes]

\* no getAiSummary has settled
NoSummary == [threw |-> FALSE, value |-> <<>>, calls |-> 0, failures |-> 0, delays |-> <<>>]

\* !data || data.length === 0
NoRows(data) == data = NoData \/ data = 0

RECURSIVE RetryingLoopRethrows(_, _, _, _, _, _)
RetryingLoopRethrows(data, outcomes, maxTries, at, failures, delays) ==
  IF at > maxTries
  THEN [threw |-> FALSE, value |-> <<"undefined">>, calls |-> at - 1,
        failures |-> failures, delays |-> delays]
  ELSE IF outcomes[at] = "content"
  THEN [threw |-> FALSE, value |-> <<"the reply">>, calls |-> at,
        failures |-> failures, delays |-> delays]
  ELSE IF outcomes[at] = "no_content"
  THEN [threw |-> FALSE,
        value |-> <<"Query found", data, "result(s). See the data table for details.">>,
        calls |-> at, failures |-> failures, delays |-> delays]
  ELSE IF at = maxTries
  THEN [threw |-> TRUE, value |-> <<>>, calls |-> at, failures |-> failures + 1,
        delays |-> delays]
  ELSE RetryingLoopRethrows(data, outcomes, maxTries, at + 1, failures + 1,
                    IF outcomes[at] = "rejected_503" THEN Append(delays, 1000) ELSE delays)

\* the for loop of the retrying getAiSummary from attempt at on
RECURSIVE RetryingLoop(_, _, _, _, _, _)
RetryingLoop(data, outcomes, maxTries, at, failures, delays) ==
  IF at > maxTries
  THEN [threw |-> FALSE, value |-> <<"undefined">>, calls |-> at - 1,
        failures |-> failures, delays |-> delays]
  ELSE IF outcomes[at] = "content"
  THEN [threw |-> FALSE, value |-> <<"the reply">>, calls |-> at,
        failures |-> failures, delays |-> delays]
  ELSE IF outcomes[at] = "no_content"
  THEN [threw |-> FALSE,
        value |-> <<"Query found", data, "result(s). See the data table for details.">>,
        calls |-> at, failures |-> failures, delays |-> delays]
  ELSE IF at = maxTries
  THEN [threw |-> FALSE,
        value |-> <<"Query executed successfully and returned", data,
                    "result(s). Please review the data below.">>,
        calls |-> at, failures |-> failures + 1, delays |-> delays]
  ELSE RetryingLoop(data, outcomes, maxTries, at + 1, failures + 1,
                    IF outcomes[at] = "rejected_503" THEN Append(delays, 1000) ELSE delays)

getAiSummaryRetryingRethrows(data, outcomes, maxTries) ==
  IF NoRows(data)
  THEN [threw |-> FALSE, value |-> <<"Query executed successfully but returned no results.">>,
        calls |-> 0, failures |-> 0, delays |-> <<>>]
  ELSE RetryingLoopRethrows(data, outcomes, maxTries, 1, 0, <<>>)

\* getAiSummary of the retrying ai.js
getAiSummaryRetrying(data, outcomes, maxTries) ==
  IF NoRows(data)
  THEN [threw |-> FALSE, value |-> <<"Query executed successfully but returned no results.">>,
        calls |-> 0, failures |-> 0, delays |-> <<>>]
  ELSE RetryingLoop(data, outcomes, maxTries, 1, 0, <<>>)

\* getAiSummary of the ai.js that exports extractEntities: one LLM call
getAiSummary(data, outcomes) ==
  IF NoRows(data)
  THEN [threw |-> FALSE,
        value |-> <<"No results found in the database matching your criteria.">>,
        calls |-> 0, failures |-> 0, delays |-> <<>>]
  ELSE IF outcomes[1] = "content"
  THEN [threw |-> FALSE, value |-> <<"the reply">>, calls |-> 1, failures |-> 0,
        delays |-> <<>>]
  ELSE IF outcomes[1] = "no_content"
  THEN [threw |-> FALSE, value |-> <<"undefined">>, calls |-> 1, failures |-> 0,
        delays |-> <<>>]
  ELSE [threw |-> FALSE,
        value |-> <<"Query executed successfully. Please check the data table for details.">>,
        calls |-> 1, failures |-> 1, delays |-> <<>>]

(* ----------------------- POST /api/query ------------------------------- *)

NoResponse == [status |-> 0, error |-> ""]

\* req.body.query: absent, empty, or a question
NoQuery == "<undefined>"
Queries == {NoQuery, "", "ratings for Robert"}

\* !userQuery
Falsy(q) == q \in {NoQuery, ""}

SingleDirectiveWithoutTopic(match) ==
  IF match.category = "instructor"
  THEN <<[kind |-> "single", label |-> "Instructor", column |-> "di.full_name", value |-> match.value]>>
  ELSE IF match.category = "domain"
  THEN <<[kind |-> "single", label |-> "Domain", column |-> "dd.domain_name", value |-> match.value]>>
  ELSE IF match.category = "class"
  THEN <<[kind |-> "single", label |-> "Class", column |-> "dc.class_name", value |-> match.value]>>
  ELSE <<>>

\* the directive pushed for candidates.length === 1
SingleDirective(match) ==
  IF match.category = "instructor"
  THEN <<[kind |-> "single", label |-> "Instructor", column |-> "di.full_name", value |-> match.value]>>
  ELSE IF match.category = "domain"
  THEN <<[kind |-> "single", label |-> "Domain", column |-> "dd.domain_name", value |-> match.value]>>
  ELSE IF match.category = "class"
  THEN <<[kind |-> "single", label |-> "Class", column |-> "dc.class_name", value |-> match.value]>>
  ELSE IF match.category = "topic"
  THEN <<[kind |-> "single", label |-> "Topic", column |-> "dt.topic_code", value |-> match.value]>>
  ELSE <<>>

AmbiguousDirectiveFirstOnly(term, candidates) ==
  <<[kind |-> "ambiguous", term |-> term, names |-> <<candidates[1].value>>]>>

\* the directive pushed for candidates.length > 1
AmbiguousDirective(term, candidates) ==
  <<[kind |-> "ambiguous", term |-> term,
     names |-> [i \in 1..Len(candidates) |-> candidates[i].value]]>>

\* one iteration of the for loop: what it pushes on contextMessages
Directive(term, candidates) ==
  IF Len(candidates) = 1 THEN SingleDirective(candidates[1])
  ELSE IF Len(candidates) > 1 THEN AmbiguousDirective(term, candidates)
  ELSE <<>>

RECURSIVE DirectivesUnshifted(_)
DirectivesUnshifted(res) ==
  IF res = <<>> THEN <<>>
  ELSE DirectivesUnshifted(Tail(res)) \o Directive(Head(res).term, Head(res).candidates)

\* contextMessages after the loop over the resolved terms
RECURSIVE Directives(_)
Directives(res) ==
  IF res = <<>> THEN <<>>
  ELSE Directive(Head(res).term, Head(res).candidates) \o Directives(Tail(res))

\* a piece of literal text inside a string built by concatenation
Text(t) == <<[kind |-> "text", text |-> t]>>

\* Array.prototype.join(sep): the elements with sep between neighbours
RECURSIVE join(_, _)
join(msgs, sep) ==
  IF msgs = <<>> THEN <<>>
  ELSE IF Len(msgs) = 1 THEN msgs
  ELSE <<Head(msgs)>> \o Text(sep) \o join(Tail(msgs), sep)

contextStringAlways(msgs) ==
  Text("\n\n(SYSTEM CONTEXT:\n") \o join(msgs, "\n") \o Text("\n)")

\* contextString: the directives joined by newlines inside one
\* "(SYSTEM CONTEXT: ... )" block, or the empty string when there is none;
\* a string is the sequence of the pieces concatenated into it
contextString(msgs) ==
  IF Len(msgs) > 0
  THEN Text("\n\n(SYSTEM CONTEXT:\n") \o join(msgs, "\n") \o Text("\n)")
  ELSE <<>>

ReceiveQueryUnchecked(q) ==
  /\ reqPc = "idle"
  /\ userQuery' = q
  /\ reqPc' = "extracting"
  /\ UNCHANGED <<toolVars, aiVersion, summaryMaxRetries, resultRows, summary, db, fuseScore, leaked, queried, finalPrompt, extraction, caches, initPc, failedAt, entities,
                 resolutions, contextMessages, clientHeld, response>>

\* the request arrives; a missing or empty query is answered 400, otherwise
\* extractEntities is called and awaited
ReceiveQuery(q) ==
  /\ reqPc = "idle"
  /\ userQuery' = q
  /\ IF Falsy(q)
     THEN /\ response' = [status |-> 400, error |-> "Query required"]
          /\ reqPc' = "responded"
     ELSE /\ reqPc' = "extracting"
          /\ UNCHANGED response
  /\ UNCHANGED <<toolVars, aiVersion, summaryMaxRetries, resultRows, summary, db, fuseScore, leaked, queried, finalPrompt, extraction, caches, initPc, failedAt, entities,
                 resolutions, contextMessages, clientHeld>>

\* what happens inside extractEntities: the LLM call rejects, its content is
\* not JSON, the JSON has no "entities", or it has the list listed
ExtractOutcomes == {"llm_error", "parse_error", "no_entities", "ok"}

extractEntitiesUncaught(outcome, listed) ==
  [threw |-> outcome \in {"llm_error", "parse_error"},
   value |-> IF outcome = "ok" THEN listed ELSE <<>>]

\* extractEntities(userQuery): the try block returns parsed.entities || [],
\* the catch logs and returns []
extractEntities(outcome, listed) ==
  [threw |-> FALSE, value |-> IF outcome = "ok" THEN listed ELSE <<>>]

ExtractReturnsEvicting(outcome, listed) ==
  /\ reqPc = "extracting"
  /\ extraction' = outcome
  /\ LET extracted == extractEntities(outcome, listed)
         ents == extracted.value
         res(i) == resolveTerm(ents[i])
         throwing == { i \in 1..Len(ents) : res(i).threw }
         last == IF throwing = {} THEN Len(ents)
                 ELSE CHOOSE i \in throwing : \A j \in throwing : i <= j
         done == [i \in 1..last |-> res(i)]
     IN  /\ entities' = ents
         /\ resolutions' = done
         /\ IF extracted.threw
            THEN /\ contextMessages' = <<>>
                 /\ finalPrompt' = <<>>
                 /\ reqPc' = "responded"
                 /\ response' = [status |-> 500, error |-> "extractor"]
            ELSE IF throwing = {}
            THEN /\ contextMessages' = Directives(done)
                 /\ finalPrompt' = Text(userQuery) \o contextString(Directives(done))
                 /\ reqPc' = "generating"
                 /\ UNCHANGED response
            ELSE /\ contextMessages' = Directives(SubSeq(done, 1, last - 1))
                 /\ finalPrompt' = <<>>
                 /\ reqPc' = "responded"
                 /\ response' = [status |-> 500, error |-> "resolver"]
  /\ caches' = IF listed = <<>> THEN caches ELSE [caches EXCEPT !["topics"] = Null]
  /\ UNCHANGED <<toolVars, aiVersion, summaryMaxRetries, resultRows, summary, db, fuseScore, leaked, queried, initPc, failedAt, userQuery, clientHeld>>

\* extractEntities settles with outcome; a throw would go to the handler's
\* catch; otherwise the loop resolves the terms in order; a throw leaves the
\* loop for the catch, which answers 500; otherwise the prompt is built and
\* getAiSql called and awaited
ExtractReturns(outcome, listed) ==
  /\ reqPc = "extracting"
  /\ extraction' = outcome
  /\ LET extracted == extractEntities(outcome, listed)
         ents == extracted.value
         res(i) == resolveTerm(ents[i])
         throwing == { i \in 1..Len(ents) : res(i).threw }
         last == IF throwing = {} THEN Len(ents)
                 ELSE CHOOSE i \in throwing : \A j \in throwing : i <= j
         done == [i \in 1..last |-> res(i)]
     IN  /\ entities' = ents
         /\ resolutions' = done
         /\ IF extracted.threw
            THEN /\ contextMessages' = <<>>
                 /\ finalPrompt' = <<>>
                 /\ reqPc' = "responded"
                 /\ response' = [status |-> 500, error |-> "extractor"]
            ELSE IF throwing = {}
            THEN /\ contextMessages' = Directives(done)
                 /\ finalPrompt' = Text(userQuery) \o contextString(Directives(done))
                 /\ reqPc' = "generating"
                 /\ UNCHANGED response
            ELSE /\ contextMessages' = Directives(SubSeq(done, 1, last - 1))
                 /\ finalPrompt' = <<>>
                 /\ reqPc' = "responded"
                 /\ response' = [status |-> 500, error |-> "resolver"]
  /\ UNCHANGED <<toolVars, aiVersion, summaryMaxRetries, resultRows, summary, db, fuseScore, leaked, queried, caches, initPc, failedAt, userQuery, clientHeld>>

\* getAiSql returns the SQL: pool.connect is called and awaited; the loop's
\* locals are not read again
SqlGenerated ==
  /\ reqPc = "generating"
  /\ reqPc' = "connecting"
  /\ entities' = <<>>
  /\ resolutions' = <<>>
  /\ contextMessages' = <<>>
  /\ finalPrompt' = <<>>
  /\ UNCHANGED <<toolVars, aiVersion, summaryMaxRetries, resultRows, summary, db, fuseScore, leaked, queried, extraction, caches, initPc, failedAt, userQuery, clientHeld, response>>

\* getAiSql throws: the catch answers 500
SqlGenerationFails ==
  /\ reqPc = "generating"
  /\ reqPc' = "responded"
  /\ response' = [status |-> 500, error |-> "llm"]
  /\ entities' = <<>>
  /\ resolutions' = <<>>
  /\ contextMessages' = <<>>
  /\ finalPrompt' = <<>>
  /\ UNCHANGED <<toolVars, aiVersion, summaryMaxRetries, resultRows, summary, db, fuseScore, leaked, queried, extraction, caches, initPc, failedAt, userQuery, clientHeld>>

\* pool.connect resolves with a client: client.query(sqlQuery) is awaited
Connected ==
  /\ reqPc = "connecting"
  /\ PoolHasClient
  /\ reqPc' = "querying"
  /\ clientHeld' = TRUE
  /\ UNCHANGED <<toolVars, aiVersion, summaryMaxRetries, resultRows, summary, db, fuseScore, leaked, queried, finalPrompt, extraction, caches, initPc, failedAt, userQuery, entities,
                 resolutions, contextMessages, response>>

\* pool.connect rejects: the catch answers 500
ConnectFails ==
  /\ reqPc = "connecting"
  /\ PoolHasClient
  /\ reqPc' = "responded"
  /\ response' = [status |-> 500, error |-> "db"]
  /\ UNCHANGED <<toolVars, aiVersion, summaryMaxRetries, resultRows, summary, db, fuseScore, leaked, queried, finalPrompt, extraction, caches, initPc, failedAt, userQuery, entities,
                 resolutions, contextMessages, clientHeld>>

\* client.query resolves: the client is released and getAiSummary awaited
QueryExecuted(data) ==
  /\ reqPc = "querying"
  /\ reqPc' = "summarizing"
  /\ clientHeld' = FALSE
  /\ resultRows' = data
  /\ UNCHANGED <<toolVars, aiVersion, summaryMaxRetries, summary, db, fuseScore, leaked, queried, finalPrompt, extraction, caches, initPc, failedAt, userQuery, entities,
                 resolutions, contextMessages, response>>

\* client.query rejects: the catch answers 500; client.release() is skipped,
\* so the client stays checked out of the pool for the life of the process
QueryExecutionFails ==
  /\ reqPc = "querying"
  /\ reqPc' = "responded"
  /\ response' = [status |-> 500, error |-> "db"]
  /\ leaked' = leaked + 1
  /\ UNCHANGED <<toolVars, aiVersion, summaryMaxRetries, resultRows, summary, db, fuseScore, queried, finalPrompt, extraction, caches, initPc, failedAt, userQuery, entities,
                 resolutions, contextMessages, clientHeld>>

\* getAiSummary settles after the LLM outcomes given: with its value,
\* res.json({data, summary, sql}) is sent; a throw would go to the catch
Summarized(outcomes) ==
  /\ reqPc = "summarizing"
  /\ LET settled == IF aiVersion = "retrying"
                    THEN getAiSummaryRetrying(resultRows, outcomes, summaryMaxRetries)
                    ELSE getAiSummary(resultRows, outcomes)
     IN  /\ summary' = settled
         /\ response' = IF settled.threw THEN [status |-> 500, error |-> "llm"]
                        ELSE [status |-> 200, error |-> ""]
  /\ reqPc' = "responded"
  /\ UNCHANGED <<toolVars, aiVersion, summaryMaxRetries, resultRows, db, fuseScore, leaked, queried,
                 finalPrompt, extraction, caches, initPc, failedAt, userQuery, entities,
                 resolutions, contextMessages, clientHeld>>

\* the handler has returned; the next request starts with fresh locals
NextRequest ==
  /\ reqPc = "responded"
  /\ reqPc' = "idle"
  /\ userQuery' = ""
  /\ entities' = <<>>
  /\ resolutions' = <<>>
  /\ contextMessages' = <<>>
  /\ finalPrompt' = <<>>
  /\ clientHeld' = FALSE
  /\ response' = NoResponse
  /\ extraction' = "none"
  /\ resultRows' = NoData
  /\ summary' = NoSummary
  /\ UNCHANGED <<toolVars, aiVersion, summaryMaxRetries, db, fuseScore, leaked, queried, caches, initPc, failedAt>>

(* ------------------------ specifications ------------------------------- *)

\* scores of the library for the terms of the model: "Robert" as in the
\* resolver's own examples (0.10 / 0.11 / 0.35), a term equal to a domain
\* name (exact match, 0), a term nothing resembles, and the blank term, which
\* the library matches like any other pattern
ExampleScores ==
  [t \in StringTerms |->
     IF t = "Robert"
     THEN [x \in Texts |->
             IF x = "Robert Smith" THEN 10
             ELSE IF x = "Robert Jones" THEN 11
             ELSE IF x = "Robert's Seminar" THEN 35
             ELSE NoMatch]
     ELSE IF t = BlankTerm
     THEN [x \in Texts |->
             IF x = "Live Class" THEN 10
             ELSE IF x = "Backend" THEN NoMatch
             ELSE 67]
     ELSE IF t = "Backend"
     THEN [x \in Texts |-> IF x = "Backend" THEN 0 ELSE NoMatch]
     ELSE [x \in Texts |-> IF x = "Backend" THEN 45 ELSE NoMatch]]

\* the contents the schema's UNIQUE constraints admit
DbContents ==
  [dim_instructor : Tables(InstructorRows), dim_domain : Tables(DomainRows),
   dim_class : Tables(ClassRows), dim_topic : Tables(TopicRows)]

\* the term lists the extractor can return
EntityLists == UNION { [1..n -> Terms] : n \in 0..MaxEntities }

\* the tables of schema.sql before anything is loaded; nextId stands for the
\* generator behind DEFAULT uuid_generate_v4()
EmptyTables ==
  [dim_domain |-> {}, dim_topic |-> {}, dim_instructor |-> {}, dim_class |-> {},
   fact_sessions |-> {}, nextId |-> 1]

\* no call of getAiSql (the retrying version) is in progress
SqlIdle ==
  /\ sqlPc = "idle"
  /\ attempt = 0
  /\ maxRetries = 0
  /\ sqlLog = <<>>
  /\ sqlResult = <<>>

\* load_excel is not running
EtlIdle ==
  /\ sheet = <<>>
  /\ etlPc = "idle"
  /\ etlRun = 0
  /\ etlRow = 0
  /\ tables = EmptyTables
  /\ afterFirstRun = EmptyTables

\* generatePartialAliases has not been called
AliasIdle ==
  /\ canonicalName = <<>>
  /\ aliasPc = "idle"
  /\ aliases = <<>>

\* index.html as loaded: the loader, the error container and the result
\* sections are hidden, the button is enabled and shows its arrow
PageLoaded ==
  [loader |-> "none", submitDisabled |-> FALSE, arrowHidden |-> FALSE,
   spinnerHidden |-> TRUE, error |-> "none", errorMessage |-> "",
   summary |-> "none", chart |-> "none", table |-> "none", sql |-> "none"]

\* no body
NoBody ==
  [kind |-> "none", rows |-> 0, summary |-> "", sql |-> "", chart |-> "none",
   error |-> ""]

\* fetch has not resolved
NoHttpResponse == [ok |-> FALSE, body |-> NoBody]

\* the page has been loaded and nothing has been typed
UiIdle ==
  /\ uiPc = "idle"
  /\ queryInput = <<>>
  /\ requestBody = <<>>
  /\ httpResponse = NoHttpResponse
  /\ display = PageLoaded
  /\ chartInstance = FALSE

\* the functions outside the handler are not running
ToolsIdle == SqlIdle /\ EtlIdle /\ AliasIdle /\ UiIdle

\* state when the server starts listening: initAllCaches has issued its first
\* query, no request has arrived
InitRest ==
  /\ ToolsIdle
  /\ caches = [c \in CacheNames |-> Null]
  /\ initPc = "instructors"
  /\ queried = <<"instructors">>
  /\ failedAt = ""
  /\ reqPc = "idle"
  /\ userQuery = ""
  /\ extraction = "none"
  /\ entities = <<>>
  /\ resolutions = <<>>
  /\ contextMessages = <<>>
  /\ finalPrompt = <<>>
  /\ clientHeld = FALSE
  /\ leaked = 0
  /\ response = NoResponse
  /\ aiVersion = "with_extractor"
  /\ summaryMaxRetries = SummaryMaxRetries
  /\ resultRows = NoData
  /\ summary = NoSummary

Init ==
  /\ db \in DbContents
  /\ fuseScore = ExampleScores
  /\ InitRest

Next ==
  \/ QueryResolves
  \/ QueryRejects
  \/ \E q \in Queries : ReceiveQuery(q)
  \/ \E outcome \in ExtractOutcomes, listed \in EntityLists : ExtractReturns(outcome, listed)
  \/ SqlGenerated
  \/ SqlGenerationFails
  \/ Connected
  \/ ConnectFails
  \/ \E data \in RowCounts : QueryExecuted(data)
  \/ QueryExecutionFails
  \/ \E outcomes \in OutcomeLists(summaryMaxRetries) : Summarized(outcomes)
  \/ NextRequest

Spec == Init /\ [][Next]_vars

\* every row the model's store can hold
FullDb ==
  [dim_instructor |->
     << [first_name |-> "Robert", last_name |-> "Smith", region |-> "US"],
        [first_name |-> "Robert", last_name |-> "Jones", region |-> "US"],
        [first_name |-> "Robert", last_name |-> "Smith", region |-> "India"] >>,
   dim_domain |-> << [domain_name |-> "Backend"] >>,
   dim_class |->
     << [class_name |-> "Robert's Seminar", region |-> "US"],
        [class_name |-> "Robert's Seminar", region |-> "India"] >>,
   dim_topic |-> << [topic_code |-> "Live Class"] >>]

(* The handler under fairness: every promise the handler awaits settles      *)
(* when the collaborator behind it can serve it, so a continuation that      *)
(* stays enabled is eventually run.  One store content is enough here.       *)

HandlerStep ==
  \/ \E outcome \in ExtractOutcomes, listed \in EntityLists : ExtractReturns(outcome, listed)
  \/ SqlGenerated
  \/ SqlGenerationFails
  \/ Connected
  \/ ConnectFails
  \/ \E data \in RowCounts : QueryExecuted(data)
  \/ QueryExecutionFails
  \/ \E outcomes \in OutcomeLists(summaryMaxRetries) : Summarized(outcomes)

InitLive ==
  /\ db = FullDb
  /\ fuseScore = ExampleScores
  /\ InitRest

SpecLive == InitLive /\ [][Next]_vars /\ WF_vars(HandlerStep)

(* resolveTerm as a function of what the library returns: every index is     *)
(* loaded from a full store, the scores for one term are arbitrary, and the  *)
(* function is applied to each string term.                                  *)

\* scores the library may give a document: no match, two scores inside the
\* margin of each other, one just outside it, and one at the floor
ScoreChoices == {NoMatch, 10, 15, 16, 40}

InitResolve ==
  /\ ToolsIdle
  /\ db = FullDb
  /\ fuseScore \in { [ExampleScores EXCEPT !["Robert"] = g] : g \in [Texts -> ScoreChoices] }
  /\ caches = [c \in CacheNames |-> Built(c)]
  /\ initPc = "done"
  /\ queried = LoadOrder
  /\ failedAt = ""
  /\ reqPc = "idle"
  /\ userQuery = ""
  /\ extraction = "none"
  /\ entities = <<>>
  /\ resolutions = <<>>
  /\ contextMessages = <<>>
  /\ finalPrompt = <<>>
  /\ clientHeld = FALSE
  /\ leaked = 0
  /\ response = NoResponse
  /\ aiVersion = "with_extractor"
  /\ summaryMaxRetries = SummaryMaxRetries
  /\ resultRows = NoData
  /\ summary = NoSummary

\* a call resolveTerm(term)
ResolveCall(term) ==
  /\ resolutions' = <<resolveTerm(term)>>
  /\ UNCHANGED <<toolVars, aiVersion, summaryMaxRetries, resultRows, summary, db, fuseScore, leaked, queried, finalPrompt, extraction, caches, initPc, failedAt, reqPc, userQuery,
                 entities, contextMessages, clientHeld, response>>

NextResolve == \E term \in StringTerms : ResolveCall(term)

SpecResolve == InitResolve /\ [][NextResolve]_vars

(* ------------------ getAiSql (the retrying version) -------------------- *)

\* a string is the sequence of its pieces: a fence of three backticks, the
\* word sql, a newline, a blank, and a statement
Fence == "<fence>"
ContentPieces == {Fence, "sql", "\n", " ", "SELECT 1"}
Whitespace == {"\n", " "}

\* what the LLM can reply: content of up to MaxContent pieces (a reply without
\* choices[0].message.content gives "" like the empty content)
Contents == UNION { [1..n -> ContentPieces] : n \in 0..MaxContent }

\* the status of the error a rejected LLM call carries: 503, another HTTP
\* status, or none (a network error)
NoStatus == 0
ErrorStatuses == {503, 429, NoStatus}

\* String.prototype.trim()
trim(str) ==
  LET inner == { i \in 1..Len(str) : str[i] \notin Whitespace }
  IN  IF inner = {} THEN <<>>
      ELSE LET first == CHOOSE i \in inner : \A j \in inner : i <= j
               last == CHOOSE i \in inner : \A j \in inner : j <= i
           IN  SubSeq(str, first, last)

\* str.includes("```sql")
IncludesFenceSql(str) ==
  \E i \in 1..(Len(str) - 1) : str[i] = Fence /\ str[i + 1] = "sql"

\* str.includes("```")
IncludesFence(str) == \E i \in 1..Len(str) : str[i] = Fence

\* str.replace(/```sql\n?/g, "")
RECURSIVE ReplaceFenceSql(_)
ReplaceFenceSql(str) ==
  IF str = <<>> THEN <<>>
  ELSE IF Len(str) >= 2 /\ str[1] = Fence /\ str[2] = "sql"
  THEN IF Len(str) >= 3 /\ str[3] = "\n"
       THEN ReplaceFenceSql(SubSeq(str, 4, Len(str)))
       ELSE ReplaceFenceSql(SubSeq(str, 3, Len(str)))
  ELSE <<Head(str)>> \o ReplaceFenceSql(Tail(str))

\* str.replace(/```\n?/g, "")
RECURSIVE ReplaceFenceNl(_)
ReplaceFenceNl(str) ==
  IF str = <<>> THEN <<>>
  ELSE IF str[1] = Fence
  THEN IF Len(str) >= 2 /\ str[2] = "\n"
       THEN ReplaceFenceNl(SubSeq(str, 3, Len(str)))
       ELSE ReplaceFenceNl(Tail(str))
  ELSE <<Head(str)>> \o ReplaceFenceNl(Tail(str))

\* str.replace(/```/g, "")
ReplaceFence(str) == SelectSeq(str, LAMBDA x : x # Fence)

\* the two clean-up steps applied to the trimmed content
CleanSql(sqlQuery) ==
  LET first == IF IncludesFenceSql(sqlQuery)
               THEN trim(ReplaceFenceNl(ReplaceFenceSql(sqlQuery)))
               ELSE sqlQuery
  IN  IF IncludesFence(first) THEN trim(ReplaceFence(first)) ELSE first

\* the catch block for an error of the given status and message in the
\* current attempt: wait and retry, give up, or fall out of the catch into
\* the next iteration
Caught(status, message) ==
  IF status = 503 /\ attempt < maxRetries
  THEN /\ sqlPc' = "delaying"
       /\ sqlLog' = sqlLog \o <<[ev |-> "failed", attempt |-> attempt, status |-> status],
                                [ev |-> "delay", attempt |-> attempt, ms |-> attempt * 2000]>>
       /\ UNCHANGED <<attempt, sqlResult>>
  ELSE IF attempt = maxRetries
  THEN /\ sqlPc' = "thrown"
       /\ sqlLog' = Append(sqlLog, [ev |-> "failed", attempt |-> attempt, status |-> status])
       /\ sqlResult' = <<"Failed to generate SQL after", maxRetries, "attempts", message>>
       /\ UNCHANGED attempt
  ELSE /\ sqlPc' = "calling"
       /\ attempt' = attempt + 1
       /\ sqlLog' = sqlLog \o <<[ev |-> "failed", attempt |-> attempt, status |-> status],
                                [ev |-> "call", attempt |-> attempt + 1]>>
       /\ UNCHANGED sqlResult

\* the awaited groq.chat.completions.create resolves with content
SqlLlmResolves(content) ==
  /\ sqlPc = "calling"
  /\ LET sqlQuery == trim(content)
     IN  IF sqlQuery = <<>>
         THEN Caught(NoStatus, "Empty SQL response from AI")
         ELSE /\ sqlPc' = "returned"
              /\ sqlResult' = CleanSql(sqlQuery)
              /\ sqlLog' = Append(sqlLog, [ev |-> "succeeded", attempt |-> attempt,
                                           content |-> content])
              /\ UNCHANGED attempt
  /\ UNCHANGED <<maxRetries, serverVars, etlVars, aliasVars, uiVars>>

\* the awaited groq.chat.completions.create rejects
SqlLlmRejects(status) ==
  /\ sqlPc = "calling"
  /\ Caught(status, "llm error")
  /\ UNCHANGED <<maxRetries, serverVars, etlVars, aliasVars, uiVars>>

\* the timer of the retry delay fires: continue with the next iteration
SqlDelayElapsed ==
  /\ sqlPc = "delaying"
  /\ sqlPc' = "calling"
  /\ attempt' = attempt + 1
  /\ sqlLog' = Append(sqlLog, [ev |-> "call", attempt |-> attempt + 1])
  /\ UNCHANGED <<maxRetries, sqlResult, serverVars, etlVars, aliasVars, uiVars>>

\* the server at rest, as the functions below find it
ServerIdle ==
  /\ db = FullDb
  /\ fuseScore = ExampleScores
  /\ caches = [c \in CacheNames |-> Null]
  /\ initPc = "instructors"
  /\ queried = <<"instructors">>
  /\ failedAt = ""
  /\ reqPc = "idle"
  /\ userQuery = ""
  /\ extraction = "none"
  /\ entities = <<>>
  /\ resolutions = <<>>
  /\ contextMessages = <<>>
  /\ finalPrompt = <<>>
  /\ clientHeld = FALSE
  /\ leaked = 0
  /\ response = NoResponse
  /\ aiVersion = "with_extractor"
  /\ summaryMaxRetries = SummaryMaxRetries
  /\ resultRows = NoData
  /\ summary = NoSummary

\* getAiSql(userQuery, maxRetries) has been called with maxRetries >= 1: the
\* loop is in its first iteration and the first LLM call is awaited
InitSql ==
  /\ ServerIdle
  /\ EtlIdle
  /\ AliasIdle
  /\ UiIdle
  /\ maxRetries \in 1..MaxRetriesBound
  /\ attempt = 1
  /\ sqlPc = "calling"
  /\ sqlLog = <<[ev |-> "call", attempt |-> 1]>>
  /\ sqlResult = <<>>

NextSql ==
  \/ \E content \in Contents : SqlLlmResolves(content)
  \/ \E status \in ErrorStatuses : SqlLlmRejects(status)
  \/ SqlDelayElapsed

SpecSql == InitSql /\ [][NextSql]_vars

(* ----------------------- load_excel main ------------------------------- *)

\* the "Session Date" cell: absent, an Excel serial number, or a text
NoDate == [type |-> "missing", value |-> 0, text |-> ""]
DateCells ==
  {NoDate, [type |-> "number", value |-> 45304, text |-> ""],
   [type |-> "string", value |-> 0, text |-> "2024-01-13"]}

\* the metrics of a row: average rating, and "% Rated" in hundredths, given
\* as a fraction (0.5) or as a percentage (80)
Metrics == {[average |-> 4, ratedPct |-> 50], [average |-> 5, ratedPct |-> 8000]}

\* the rows sheet_to_json can give, after (cell || "").trim(): a first name
\* that may be blank, two domains, the date cell, and the metrics
SheetRows ==
  { [topic |-> "Live Class", domain |-> d, class |-> "Robert's Seminar", classRegion |-> "US",
     firstName |-> f, lastName |-> "Smith", instrRegion |-> "US", date |-> c,
     average |-> m.average, ratedPct |-> m.ratedPct] :
       d \in {"Backend", "Data"}, f \in {"", "Robert"}, c \in DateCells, m \in Metrics }

Sheets == UNION { [1..n -> SheetRows] : n \in 0..MaxSheetRows }

\* dateStr: xlsx.SSF.parse_date_code for a serial number, dayjs(...).format
\* for a text
DateStr(cell) ==
  IF cell.type = "number"
  THEN IF cell.value = 45304 THEN "2024-01-13" ELSE "1900-01-00"
  ELSE cell.text

\* if (ratedPct <= 1 && ratedPct > 0) ratedPct = ratedPct * 100 (in hundredths)
RatedPct(raw) == IF raw <= 100 /\ raw > 0 THEN raw * 100 ELSE raw

SkippedWithoutDate(row) == row.firstName = ""

\* if (!firstNameVal || !dateRaw) continue
Skipped(row) == row.firstName = "" \/ row.date = NoDate

\* INSERT INTO dim_domain ... ON CONFLICT (domain_name) DO UPDATE ...
\* RETURNING domain_id: the tables afterwards and the id returned
UpsertDomain(t, name) ==
  IF \E r \in t.dim_domain : r.domain_name = name
  THEN [tables |-> t, id |-> (CHOOSE r \in t.dim_domain : r.domain_name = name).domain_id]
  ELSE [tables |-> [t EXCEPT !.dim_domain = @ \cup {[domain_id |-> t.nextId, domain_name |-> name]},
                             !.nextId = @ + 1],
        id |-> t.nextId]

\* INSERT INTO dim_topic ... ON CONFLICT (topic_code) DO UPDATE ...
UpsertTopic(t, code) ==
  IF \E r \in t.dim_topic : r.topic_code = code
  THEN [tables |-> t, id |-> (CHOOSE r \in t.dim_topic : r.topic_code = code).topic_id]
  ELSE [tables |-> [t EXCEPT !.dim_topic = @ \cup {[topic_id |-> t.nextId, topic_code |-> code]},
                             !.nextId = @ + 1],
        id |-> t.nextId]

\* INSERT INTO dim_instructor ... ON CONFLICT (first_name, last_name, region)
UpsertInstructor(t, first, last, region) ==
  LET same(r) == r.first_name = first /\ r.last_name = last /\ r.region = region
  IN  IF \E r \in t.dim_instructor : same(r)
      THEN [tables |-> t, id |-> (CHOOSE r \in t.dim_instructor : same(r)).instructor_id]
      ELSE [tables |-> [t EXCEPT !.dim_instructor = @ \cup
                                   {[instructor_id |-> t.nextId, first_name |-> first,
                                     last_name |-> last, region |-> region]},
                                 !.nextId = @ + 1],
            id |-> t.nextId]

\* INSERT INTO dim_class ... ON CONFLICT (class_name, region)
UpsertClass(t, name, region) ==
  LET same(r) == r.class_name = name /\ r.region = region
  IN  IF \E r \in t.dim_class : same(r)
      THEN [tables |-> t, id |-> (CHOOSE r \in t.dim_class : same(r)).class_id]
      ELSE [tables |-> [t EXCEPT !.dim_class = @ \cup
                                   {[class_id |-> t.nextId, class_name |-> name, region |-> region]},
                                 !.nextId = @ + 1],
            id |-> t.nextId]

InsertFactAlways(t, f) ==
  [t EXCEPT !.fact_sessions = @ \cup {[f EXCEPT !.session_id = t.nextId]},
            !.nextId = @ + 1]

\* INSERT INTO fact_sessions ... ON CONFLICT (instructor_id, class_id,
\* pst_date, topic_id) DO UPDATE SET the four metrics
UpsertFact(t, f) ==
  LET same(r) == /\ r.instructor_id = f.instructor_id
                 /\ r.class_id = f.class_id
                 /\ r.pst_date = f.pst_date
                 /\ r.topic_id = f.topic_id
  IN  IF \E r \in t.fact_sessions : same(r)
      THEN [t EXCEPT !.fact_sessions =
               { IF same(r)
                 THEN [r EXCEPT !.average_rating = f.average_rating, !.rated_pct = f.rated_pct]
                 ELSE r : r \in @ }]
      ELSE [t EXCEPT !.fact_sessions = @ \cup {[f EXCEPT !.session_id = t.nextId]},
                     !.nextId = @ + 1]

\* one iteration of the loop over the rows
LoadedRow(t, row) ==
  IF Skipped(row) THEN t
  ELSE LET d == UpsertDomain(t, row.domain)
           tp == UpsertTopic(d.tables, row.topic)
           i == UpsertInstructor(tp.tables, row.firstName, row.lastName, row.instrRegion)
           c == UpsertClass(i.tables, row.class, row.classRegion)
       IN  UpsertFact(c.tables,
                      [session_id |-> 0, instructor_id |-> i.id, class_id |-> c.id,
                       domain_id |-> d.id, topic_id |-> tp.id, pst_date |-> DateStr(row.date),
                       average_rating |-> row.average, rated_pct |-> RatedPct(row.ratedPct)])

\* the loop body runs for the next row of the sheet
LoadRow ==
  /\ etlPc = "loading"
  /\ etlRow <= Len(sheet)
  /\ tables' = LoadedRow(tables, sheet[etlRow])
  /\ etlRow' = etlRow + 1
  /\ UNCHANGED <<sheet, etlPc, etlRun, afterFirstRun, sqlVars, serverVars, aliasVars, uiVars>>

\* the loop is over and main returns; the loader is then run once more on
\* the same file
EndOfSheet ==
  /\ etlPc = "loading"
  /\ etlRow > Len(sheet)
  /\ IF etlRun = 1
     THEN /\ afterFirstRun' = tables
          /\ etlRun' = 2
          /\ etlRow' = 1
          /\ UNCHANGED etlPc
     ELSE /\ etlPc' = "done"
          /\ UNCHANGED <<afterFirstRun, etlRun, etlRow>>
  /\ UNCHANGED <<sheet, tables, sqlVars, serverVars, aliasVars, uiVars>>

\* load_excel has read the sheet and is about to process its first row; the
\* tables are as schema.sql creates them
InitEtl ==
  /\ ServerIdle
  /\ SqlIdle
  /\ AliasIdle
  /\ UiIdle
  /\ sheet \in Sheets
  /\ etlPc = "loading"
  /\ etlRun = 1
  /\ etlRow = 1
  /\ tables = EmptyTables
  /\ afterFirstRun = EmptyTables

NextEtl == LoadRow \/ EndOfSheet

SpecEtl == InitEtl /\ [][NextEtl]_vars

(* the summarize stage on its own: client.query has returned, and            *)
(* getAiSummary of either ai.js is awaited, with any maxRetries              *)

InitSummary ==
  /\ ToolsIdle
  /\ db = FullDb
  /\ fuseScore = ExampleScores
  /\ caches = [c \in CacheNames |-> Built(c)]
  /\ initPc = "done"
  /\ queried = LoadOrder
  /\ failedAt = ""
  /\ reqPc = "summarizing"
  /\ userQuery = "ratings for Robert"
  /\ extraction = "no_entities"
  /\ entities = <<>>
  /\ resolutions = <<>>
  /\ contextMessages = <<>>
  /\ finalPrompt = <<>>
  /\ clientHeld = FALSE
  /\ leaked = 0
  /\ response = NoResponse
  /\ aiVersion \in {"retrying", "with_extractor"}
  /\ summaryMaxRetries \in 1..MaxRetriesBound
  /\ resultRows \in SummaryData
  /\ summary = NoSummary

NextSummary == \E outcomes \in OutcomeLists(summaryMaxRetries) : Summarized(outcomes)

SpecSummary == InitSummary /\ [][NextSummary]_vars

(* ----------------------------- claims ---------------------------------- *)

\* the collected matches of a resolution that pass the 0.4 floor
Passed(r) == SelectSeq(r.collected, LAMBDA m : m.score < Floor)

\* the lowest score among them
Best(r) ==
  LET p == Passed(r)
  IN  CHOOSE b \in { p[i].score : i \in 1..Len(p) } : \A i \in 1..Len(p) : b <= p[i].score

Count(m, seq) == Cardinality({ i \in 1..Len(seq) : seq[i] = m })

\* m passed the floor and at least one occurrence of it was not returned
NotReturned(m, r) == Count(m, Passed(r)) > Count(m, r.candidates)

Ambiguous(r) == ~r.threw /\ Len(r.candidates) > 1

\* C1 as stated: in every Ambiguous result each returned candidate has
\* score <= bestScore + 0.05 and each candidate that passed the floor but was
\* not returned has score > bestScore + 0.05.
C1_MarginAsStated ==
  \A k \in 1..Len(resolutions) :
    LET r == resolutions[k]
        p == Passed(r)
    IN  Ambiguous(r) =>
          /\ \A i \in 1..Len(r.candidates) : r.candidates[i].score <= Best(r) + Margin
          /\ \A i \in 1..Len(p) : NotReturned(p[i], r) => p[i].score > Best(r) + Margin

\* C1 amended: in every Ambiguous result each returned candidate has
\* score <= bestScore + 0.05, and each candidate that passed the floor but was
\* not returned either has score > bestScore + 0.05 or was cut by the cap:
\* exactly 5 candidates were returned, none scoring above it.
C1_MarginUpToCap ==
  \A k \in 1..Len(resolutions) :
    LET r == resolutions[k]
        p == Passed(r)
    IN  Ambiguous(r) =>
          /\ \A i \in 1..Len(r.candidates) : r.candidates[i].score <= Best(r) + Margin
          /\ \A i \in 1..Len(p) :
                NotReturned(p[i], r) =>
                  \/ p[i].score > Best(r) + Margin
                  \/ /\ Len(r.candidates) = MaxCandidates
                     /\ \A j \in 1..Len(r.candidates) : r.candidates[j].score <= p[i].score

\* an Ambiguous result with a candidate at the edge of the margin and a
\* below-floor match left out beyond it
C1_Witness ==
  \E k \in 1..Len(resolutions) :
    LET r == resolutions[k]
        p == Passed(r)
    IN  /\ Ambiguous(r)
        /\ Len(r.candidates) < MaxCandidates
        /\ \E i \in 1..Len(r.candidates) : r.candidates[i].score = Best(r) + Margin
        /\ \E i \in 1..Len(p) : NotReturned(p[i], r) /\ p[i].score = Best(r) + Margin + 1

IndexesMatchBelowFloor(term) ==
  \E k \in 1..4 :
    LET fuse == caches[CollectCalls[k].cache]
    IN  /\ fuse.isFuse
        /\ \E i \in 1..Len(fuse.docs) :
              LET sc == fuseScore[term][fuse.docs[i][fuse.key]]
              IN  sc # NoMatch /\ sc < Floor

\* C3: resolveTerm of a string term returns the empty list, without
\* throwing, exactly when no index yields a match scoring below 0.4.
C3_UnresolvedIffNoneBelowFloor ==
  \A k \in 1..Len(resolutions) :
    LET r == resolutions[k]
    IN  r.term \in StringTerms =>
          /\ ~r.threw
          /\ (r.candidates = <<>>) <=> ~IndexesMatchBelowFloor(r.term)

\* an empty result although the searches returned matches (all at or above
\* the floor)
C3_Witness ==
  \E k \in 1..Len(resolutions) :
    LET r == resolutions[k]
    IN  r.term \in StringTerms /\ r.candidates = <<>> /\ Len(r.collected) > 1

\* C4 as stated: when a category's query failed during warm-up, only that
\* category's index is empty: every other category's index is loaded from its
\* table once initAllCaches has returned.
C4_OnlyFailedCategoryEmpty ==
  (initPc = "done" /\ failedAt # "") =>
     /\ caches[failedAt] = Null
     /\ \A c \in CacheNames \ {failedAt} : caches[c] = Built(c)

\* C5 as stated: no request is answered with an error because of the
\* resolver: whatever terms the extractor returned, the 500 response comes
\* only from the LLM or the backing store.
C5_ResolverNeverAbortsRequest ==
  response.status = 500 => response.error \in {"llm", "db"}

\* the ambiguity set of a resolution: the matches below the floor, sorted,
\* that lie within the margin of the best
AmbiguitySet(r) ==
  SelectSeq(SortByScore(Passed(r)), LAMBDA m : m.score <= Best(r) + Margin)

\* C6: resolveTerm returns at most 5 candidates, and they are the first 5 of
\* the sorted ambiguity set when that set is larger (all of it otherwise).
C6_AtMostFiveFirstFive ==
  \A k \in 1..Len(resolutions) :
    LET r == resolutions[k]
    IN  /\ Len(r.candidates) <= 5
        /\ (~r.threw /\ Passed(r) # <<>>) =>
              LET amb == AmbiguitySet(r)
              IN  /\ Len(r.candidates) = (IF Len(amb) > 5 THEN 5 ELSE Len(amb))
                  /\ \A i \in 1..Len(r.candidates) : r.candidates[i] = amb[i]

\* a resolution whose ambiguity set has more than 5 members
C6_Witness ==
  \E k \in 1..Len(resolutions) :
    /\ Len(resolutions[k].candidates) = 5
    /\ Passed(resolutions[k]) # <<>>
    /\ Len(AmbiguitySet(resolutions[k])) > 5

\* the <<category, text>> pairs of the loaded indexes the library scores
\* below the floor for a term
MatchedValues(term) ==
  { pair \in {"instructor", "domain", "class", "topic"} \X Texts :
      \E k \in 1..4 :
        LET fuse == caches[CollectCalls[k].cache]
        IN  /\ CollectCalls[k].type = pair[1]
            /\ fuse.isFuse
            /\ \E i \in 1..Len(fuse.docs) : fuse.docs[i][fuse.key] = pair[2]
            /\ fuseScore[term][pair[2]] # NoMatch
            /\ fuseScore[term][pair[2]] < Floor }

\* C7 as stated: when the loop has resolved the terms against the indexes, a
\* result of one candidate is handled as SinglyResolved and one of several as
\* Ambiguous, and a term that matches exactly one canonical value below the
\* floor is SinglyResolved with that value and its category.
C7_OneValueSinglyResolved ==
  [][ (reqPc = "extracting" /\ reqPc' = "generating") =>
        \A k \in 1..Len(resolutions') :
          LET r == resolutions'[k]
          IN  /\ Len(r.candidates) = 1 => Directive(r.term, r.candidates)[1].kind = "single"
              /\ Len(r.candidates) > 1 => Directive(r.term, r.candidates)[1].kind = "ambiguous"
              /\ (r.term \in StringTerms /\ Cardinality(MatchedValues(r.term)) = 1) =>
                    /\ Len(r.candidates) = 1
                    /\ <<r.candidates[1].category, r.candidates[1].value>>
                          \in MatchedValues(r.term) ]_vars

\* C8 as stated: no loaded index holds two records with the same canonical
\* value, and no result holds the same (category, value) pair twice.
C8_CanonicalValuesUnique ==
  /\ \A c \in CacheNames :
        caches[c].isFuse =>
          \A i, j \in 1..Len(caches[c].docs) :
            caches[c].docs[i][caches[c].key] = caches[c].docs[j][caches[c].key] => i = j
  /\ \A k \in 1..Len(resolutions) :
        \A i, j \in 1..Len(resolutions[k].candidates) :
          ( /\ resolutions[k].candidates[i].category = resolutions[k].candidates[j].category
            /\ resolutions[k].candidates[i].value = resolutions[k].candidates[j].value ) => i = j

\* position of a category in the order resolveTerm collects them
CategoryOrder(cat) ==
  IF cat = "instructor" THEN 1 ELSE IF cat = "domain" THEN 2
  ELSE IF cat = "class" THEN 3 ELSE 4

\* what the search of one category's index returns for a term, as
\* <<value, score>>, in the order returned
Returned(k, term) ==
  LET results == FuseSearch(caches[CollectCalls[k].cache], term)
  IN  [i \in 1..Len(results) |->
         <<results[i].item[CollectCalls[k].field], results[i].score>>]

\* the candidates of category k with score sc, as <<value, score>>
OfCategoryAndScore(r, k, sc) ==
  LET sel == SelectSeq(r.candidates,
               LAMBDA m : m.category = CollectCalls[k].type /\ m.score = sc)
  IN  [i \in 1..Len(sel) |-> <<sel[i].value, sel[i].score>>]

IsPrefix(a, b) == Len(a) <= Len(b) /\ \A i \in 1..Len(a) : a[i] = b[i]

\* C9: the candidates are in non-decreasing score order; among candidates of
\* equal score instructors come before domains, before classes, before
\* topics, and those of one category are in the order its search returned.
C9_SortedStable ==
  \A k \in 1..Len(resolutions) :
    LET r == resolutions[k]
        c == r.candidates
    IN  (r.term \in StringTerms) =>
          /\ \A i, j \in 1..Len(c) :
                i < j => /\ c[i].score <= c[j].score
                         /\ c[i].score = c[j].score =>
                              CategoryOrder(c[i].category) <= CategoryOrder(c[j].category)
          /\ \A cat \in 1..4 : \A i \in 1..Len(c) :
                IsPrefix(OfCategoryAndScore(r, cat, c[i].score),
                         SelectSeq(Returned(cat, r.term), LAMBDA p : p[2] = c[i].score))

\* a result that needed sorting across categories and has a tie between two
\* categories as well as one between two values of a category
C9_Witness ==
  \E k \in 1..Len(resolutions) :
    LET r == resolutions[k]
        c == r.candidates
    IN  /\ \E i, j \in 1..Len(r.collected) :
              i < j /\ r.collected[i].score > r.collected[j].score
                    /\ r.collected[j].score = Best(r)
        /\ \E i, j \in 1..Len(c) :
              c[i].score = c[j].score /\ c[i].category # c[j].category
        /\ \E i, j \in 1..Len(c) :
              c[i].score = c[j].score /\ c[i].category = c[j].category
                                      /\ c[i].value # c[j].value

\* C10 as stated: resolveTerm of a blank term returns the empty list and
\* makes no search call on any index.
C10_BlankTermNotSearched ==
  \A k \in 1..Len(resolutions) :
    resolutions[k].term = BlankTerm =>
      resolutions[k].calls = 0 /\ resolutions[k].candidates = <<>>

\* C11: a match below the floor is in the ambiguity set exactly when its
\* score is within 0.05 of the best, whatever its category: every occurrence
\* of a match within the margin is kept (no deduplication, no category
\* filter) and no match beyond the margin is.
C11_MarginOnlyNoCategoryFilter ==
  \A k \in 1..Len(resolutions) :
    LET r == resolutions[k]
        p == Passed(r)
    IN  ~r.threw =>
          /\ \A i \in 1..Len(p) :
                Count(p[i], r.topCandidates) =
                  (IF p[i].score <= Best(r) + Margin THEN Count(p[i], p) ELSE 0)
          /\ \A j \in 1..Len(r.topCandidates) : Count(r.topCandidates[j], p) > 0

\* an ambiguity set holding an instructor and a class within the margin,
\* and a below-floor match of another category left out beyond it
C11_Witness ==
  \E k \in 1..Len(resolutions) :
    LET r == resolutions[k]
        p == Passed(r)
    IN  /\ \E i, j \in 1..Len(r.topCandidates) :
              /\ r.topCandidates[i].category = "instructor"
              /\ r.topCandidates[j].category = "class"
              /\ r.topCandidates[i].score # r.topCandidates[j].score
        /\ \E i \in 1..Len(p) :
              /\ p[i].category \in {"domain", "topic"}
              /\ p[i].score > Best(r) + Margin

\* the categories whose index is assigned
Loaded == { c \in CacheNames : caches[c].isFuse }

\* the loaded categories are the first ones of the load order
LoadedIsPrefix ==
  \A i, j \in 1..4 : (i < j /\ LoadOrder[j] \in Loaded) => LoadOrder[i] \in Loaded

\* what the searches of the loaded indexes return for a term, category by
\* category, as <<category, value, score>>; a category not loaded gives nothing
ReturnedByLoaded(term) ==
  LET tagged(k) == IF CollectCalls[k].cache \in Loaded
                   THEN [i \in 1..Len(Returned(k, term)) |->
                           <<CollectCalls[k].type, Returned(k, term)[i][1],
                             Returned(k, term)[i][2]>>]
                   ELSE <<>>
  IN  tagged(1) \o tagged(2) \o tagged(3) \o tagged(4)

\* C12: whenever the handler resolves its terms, before or after warm-up has
\* finished, the loaded categories are a prefix of instructor, domain, class,
\* topic; each string term is resolved without a throw against exactly the
\* loaded indexes, the others contributing nothing; and a request whose
\* terms are all strings goes on to SQL generation.
C12_ResolvesAgainstLoadedPrefix ==
  [][ (reqPc = "extracting" /\ reqPc' # "extracting") =>
        /\ LoadedIsPrefix
        /\ \A k \in 1..Len(resolutions') :
              LET r == resolutions'[k]
              IN  r.term \in StringTerms =>
                    /\ ~r.threw
                    /\ r.calls = Cardinality(Loaded)
                    /\ [i \in 1..Len(r.collected) |->
                          <<r.collected[i].category, r.collected[i].value,
                            r.collected[i].score>>] = ReturnedByLoaded(r.term)
        /\ (\A i \in 1..Len(entities') : entities'[i] \in StringTerms)
              => reqPc' = "generating" ]_vars

\* a request resolved while warm-up is still running: only some of the
\* indexes were searched, and they gave candidates
C12_Witness ==
  /\ initPc \in CacheNames
  /\ failedAt = ""
  /\ reqPc = "generating"
  /\ Len(resolutions) > 0
  /\ resolutions[1].calls \in 1..3
  /\ resolutions[1].candidates # <<>>

\* the canonical texts of a category's table, row by row
TableTexts(c) ==
  IF c = "instructors"
  THEN [i \in 1..Len(db.dim_instructor) |-> full_name(db.dim_instructor[i])]
  ELSE IF c = "domains"
  THEN [i \in 1..Len(db.dim_domain) |-> db.dim_domain[i].domain_name]
  ELSE IF c = "classes"
  THEN [i \in 1..Len(db.dim_class) |-> db.dim_class[i].class_name]
  ELSE [i \in 1..Len(db.dim_topic) |-> db.dim_topic[i].topic_code]

\* C13: at every point where a request can run, each cache entry is either
\* null or an index over all rows of its category's table; no entry holds
\* part of a table.
C13_NullOrCompleteIndex ==
  \A c \in CacheNames :
    \/ caches[c] = Null
    \/ /\ caches[c].isFuse
       /\ [i \in 1..Len(caches[c].docs) |-> caches[c].docs[i][caches[c].key]]
            = TableTexts(c)

\* a request has searched an index of several rows while a later category
\* is not loaded yet
C13_Witness ==
  /\ caches["instructors"].isFuse
  /\ Len(caches["instructors"].docs) > 1
  /\ ~caches["topics"].isFuse
  /\ reqPc = "generating"
  /\ Len(resolutions) > 0
  /\ Len(resolutions[1].collected) > 1

\* C14: once a load of warm-up has failed, initAllCaches has returned
\* normally (nothing is raised to app.listen's callback), and a request that
\* arrives is taken up as before.
C14_LoadFailureNotRaised ==
  failedAt # "" =>
    /\ initPc = "done"
    /\ reqPc = "idle" => ENABLED ReceiveQuery("ratings for Robert")

\* warm-up failed on its third load, and a request has been answered 200
C14_Witness ==
  /\ failedAt = "classes"
  /\ initPc = "done"
  /\ response.status = 200

\* the resolutions of the request that gave at least one candidate
Resolved == SelectSeq(resolutions, LAMBDA r : r.candidates # <<>>)

\* C16: when the loop has ended, contextMessages holds one directive for each
\* term with a non-empty resolution and none for an Unresolved term, in the
\* order of the terms.
C16_OneDirectivePerResolvedTerm ==
  reqPc = "generating" =>
    /\ Len(contextMessages) = Len(Resolved)
    /\ \A i \in 1..Len(contextMessages) :
          LET d == contextMessages[i]
              r == Resolved[i]
          IN  IF Len(r.candidates) = 1
              THEN d.kind = "single" /\ d.value = r.candidates[1].value
              ELSE d.kind = "ambiguous" /\ d.term = r.term

\* [Unresolved, SinglyResolved(domain "Backend")] has given exactly one
\* directive, about the domain filter and the value "Backend"
C16_Witness ==
  /\ reqPc = "generating"
  /\ Len(resolutions) = 2
  /\ resolutions[1].candidates = <<>>
  /\ Len(resolutions[2].candidates) = 1
  /\ resolutions[2].candidates[1].category = "domain"
  /\ Len(contextMessages) = 1
  /\ contextMessages[1].kind = "single"
  /\ contextMessages[1].column = "dd.domain_name"
  /\ contextMessages[1].value = "Backend"

\* C17: the directive of an Ambiguous resolution names the original term and
\* lists the values of all its candidates, in their order.
C17_AmbiguousListsAllCandidates ==
  reqPc = "generating" =>
    \A i \in 1..Len(Resolved) :
      LET r == Resolved[i]
      IN  Len(r.candidates) > 1 =>
            /\ i <= Len(contextMessages)
            /\ contextMessages[i].kind = "ambiguous"
            /\ contextMessages[i].term = r.term
            /\ contextMessages[i].names =
                 [j \in 1..Len(r.candidates) |-> r.candidates[j].value]

\* an Ambiguous resolution of two different values and its directive
C17_Witness ==
  /\ reqPc = "generating"
  /\ \E i \in 1..Len(contextMessages) :
        /\ contextMessages[i].kind = "ambiguous"
        /\ contextMessages[i].term = "Robert"
        /\ contextMessages[i].names = <<"Robert Smith", "Robert Jones">>

\* the label and the filter column the handler uses for a category
FilterOf(category) ==
  IF category = "instructor" THEN <<"Instructor", "di.full_name">>
  ELSE IF category = "domain" THEN <<"Domain", "dd.domain_name">>
  ELSE IF category = "class" THEN <<"Class", "dc.class_name">>
  ELSE IF category = "topic" THEN <<"Topic", "dt.topic_code">>
  ELSE <<"", "">>

\* C18: the directive of a SinglyResolved candidate states its category,
\* that category's filter column and its value; every category a candidate
\* can have gets such a directive.
C18_SingleDirectiveByCategory ==
  reqPc = "generating" =>
    \A i \in 1..Len(Resolved) :
      LET r == Resolved[i]
      IN  Len(r.candidates) = 1 =>
            /\ r.candidates[1].category \in {"instructor", "domain", "class", "topic"}
            /\ i <= Len(contextMessages)
            /\ contextMessages[i].kind = "single"
            /\ contextMessages[i].label = FilterOf(r.candidates[1].category)[1]
            /\ contextMessages[i].column = FilterOf(r.candidates[1].category)[2]
            /\ contextMessages[i].value = r.candidates[1].value

\* one request with a domain and a topic, each SinglyResolved
C18_Witness ==
  /\ reqPc = "generating"
  /\ Len(contextMessages) = 2
  /\ contextMessages[1].kind = "single"
  /\ contextMessages[1].column = "dd.domain_name"
  /\ contextMessages[2].kind = "single"
  /\ contextMessages[2].column = "dt.topic_code"
  /\ contextMessages[2].value = "Live Class"

\* C19: when the extractor's LLM call fails or its output cannot be parsed,
\* extractEntities returns the empty list without raising: the handler goes
\* on to SQL generation with no terms, no resolution and no directive.
C19_ExtractorFailureGivesNoTerms ==
  [][ ( /\ reqPc = "extracting"
        /\ reqPc' # "extracting"
        /\ extraction' \in {"llm_error", "parse_error"} ) =>
        /\ reqPc' = "generating"
        /\ entities' = <<>>
        /\ resolutions' = <<>>
        /\ contextMessages' = <<>>
        /\ response' = NoResponse ]_vars

\* a request whose extraction failed has been answered 200
C19_Witness ==
  /\ extraction \in {"llm_error", "parse_error"}
  /\ response.status = 200

\* C20: a request without a query, or with an empty one, is answered 400
\* "Query required" in the step that receives it, before the extractor, the
\* resolver, the query generator or the database is used; and no other
\* request is answered 400.
C20_MissingQueryAnswered400 ==
  [][ /\ ( /\ reqPc = "idle"
            /\ reqPc' # "idle"
            /\ userQuery' \in {NoQuery, ""} ) =>
            /\ response' = [status |-> 400, error |-> "Query required"]
            /\ reqPc' = "responded"
            /\ extraction' = "none"
            /\ entities' = <<>>
            /\ resolutions' = <<>>
            /\ contextMessages' = <<>>
            /\ ~clientHeld'
      /\ (response.status # 400 /\ response'.status = 400) =>
            /\ reqPc = "idle"
            /\ userQuery' \in {NoQuery, ""} ]_vars

\* a request with no query in its body has been answered 400
C20_Witness ==
  /\ userQuery = NoQuery
  /\ reqPc = "responded"
  /\ response = [status |-> 400, error |-> "Query required"]

\* C21: when a warm-up cycle has ended, the store has been queried exactly
\* once for each of the four categories, in the order instructor, domain,
\* class, topic; while it runs, the categories queried so far are a prefix of
\* that order and the last of them is the one query outstanding.
C21_EachCategoryQueriedOnce ==
  /\ IsPrefix(queried, LoadOrder)
  /\ initPc \in CacheNames => queried[Len(queried)] = initPc
  /\ initPc = "done" => queried = LoadOrder

\* the directives among the pieces of a prompt, in order
DirectivesIn(prompt) == SelectSeq(prompt, LAMBDA x : x.kind # "text")

\* C23: the prompt handed to getAiSql starts with the user's query; when at
\* least one directive was produced, the query is followed by exactly one
\* context block (one opening, one closing) that holds all directives in
\* order; when no term produced a directive, the prompt is the query and
\* nothing else.
C23_PromptIsQueryPlusOneContextBlock ==
  reqPc = "generating" =>
    LET opening == [kind |-> "text", text |-> "\n\n(SYSTEM CONTEXT:\n"]
        closing == [kind |-> "text", text |-> "\n)"]
        n == Len(finalPrompt)
    IN  /\ n >= 1
        /\ finalPrompt[1] = [kind |-> "text", text |-> userQuery]
        /\ DirectivesIn(finalPrompt) = contextMessages
        /\ IF \A i \in 1..Len(resolutions) : resolutions[i].candidates = <<>>
           THEN n = 1
           ELSE /\ n >= 4
                /\ finalPrompt[2] = opening
                /\ finalPrompt[n] = closing
                /\ \A i \in 3..(n - 1) : finalPrompt[i] \notin {opening, closing}
                /\ finalPrompt[3].kind # "text"
                /\ finalPrompt[n - 1].kind # "text"

\* a prompt with two directives in its context block
C23_Witness ==
  /\ reqPc = "generating"
  /\ Len(contextMessages) = 2
  /\ Len(finalPrompt) = 6

\* C24: when the response of a request is sent, the request holds no client
\* of the pool: whatever it acquired has been released, also when executing
\* the generated SQL failed.
C24_ClientReleasedBeforeResponse ==
  response # NoResponse => ~clientHeld

\* C22: the step in which the handler resolves its terms leaves the four
\* cache entries as they were, and a step that changes a cache entry is a
\* step of the warm-up: it assigns the entry of the category whose query
\* was outstanding, leaves the other three alone, and is no step of a
\* request.
C22_ResolveOnlyReadsCaches ==
  [][ /\ (reqPc = "extracting" /\ reqPc' # "extracting") => caches' = caches
      /\ caches' # caches =>
            /\ initPc \in CacheNames
            /\ initPc' = NextLoad(initPc)
            /\ \A c \in CacheNames \ {initPc} : caches'[c] = caches[c]
            /\ reqPc' = reqPc
            /\ resolutions' = resolutions ]_vars

\* two terms have been resolved, with searches of all four indexes
C22_Witness ==
  /\ reqPc = "generating"
  /\ Len(resolutions) = 2
  /\ \A i \in 1..2 : resolutions[i].calls = 4
  /\ \A c \in CacheNames : caches[c].isFuse

\* the order in which a request passes its stages
StageAfter ==
  [idle |-> {"extracting", "responded"}, extracting |-> {"generating", "responded"},
   generating |-> {"connecting", "responded"}, connecting |-> {"querying", "responded"},
   querying |-> {"summarizing", "responded"}, summarizing |-> {"responded"},
   responded |-> {"idle"}]

\* C25: a request moves through extract, resolve, generate, execute and
\* summarize in that order; a response is sent in the step that ends the
\* request and never again; 200 is sent only out of the last stage; a failed
\* SQL generation or execution is answered 500 in the step that fails; and
\* every request that has been received is eventually answered.
C25_OneResponseStagesInOrder ==
  /\ [][ /\ reqPc' # reqPc => reqPc' \in StageAfter[reqPc]
         /\ response' # response =>
               \/ response = NoResponse /\ reqPc # "responded" /\ reqPc' = "responded"
               \/ response' = NoResponse /\ reqPc = "responded" /\ reqPc' = "idle"
         /\ (reqPc # "responded" /\ reqPc' = "responded") => response' # NoResponse
         /\ (response' # response /\ response'.status = 200) => reqPc = "summarizing"
         /\ (response' # response /\ response'.error = "llm") =>
               reqPc = "generating" /\ response'.status = 500
         /\ (response' # response /\ response'.error = "db") =>
               reqPc \in {"connecting", "querying"} /\ response'.status = 500 ]_vars
  /\ (reqPc \notin {"idle", "responded"}) ~> (reqPc = "responded")

\* the entries of the log of getAiSql with the given event
LogOf(ev) == SelectSeq(sqlLog, LAMBDA e : e.ev = ev)

\* C26: getAiSql makes at most maxRetries LLM calls; it returns the
\* non-empty SQL, free of fences, of the first attempt that succeeds; it
\* throws "Failed to generate SQL after maxRetries attempts" exactly when
\* attempt maxRetries fails; a failed earlier attempt is followed by the next
\* attempt, after a delay of attempt x 2000 ms exactly when the error status
\* is 503.
C26_RetriesBoundedResultClean ==
  LET calls == LogOf("call")
      failures == LogOf("failed")
      delays == LogOf("delay")
  IN  /\ Len(calls) <= maxRetries
      /\ \A i \in 1..Len(calls) : calls[i].attempt = i
      /\ sqlPc = "returned" =>
            /\ sqlResult # <<>>
            /\ ~IncludesFence(sqlResult)
            /\ Len(LogOf("succeeded")) = 1
            /\ sqlLog[Len(sqlLog)].ev = "succeeded"
            /\ Len(failures) = attempt - 1
      /\ sqlPc = "thrown" <=>
            \E i \in 1..Len(failures) : failures[i].attempt = maxRetries
      /\ sqlPc = "thrown" => sqlResult[1] = "Failed to generate SQL after" /\ sqlResult[2] = maxRetries
      /\ \A i \in 1..Len(failures) :
            failures[i].attempt < maxRetries =>
              \/ sqlPc = "delaying" /\ attempt = failures[i].attempt
              \/ \E j \in 1..Len(calls) : calls[j].attempt = failures[i].attempt + 1
      /\ \A i \in 1..Len(failures) :
            (failures[i].status = 503 /\ failures[i].attempt < maxRetries) <=>
              \E j \in 1..Len(delays) :
                 /\ delays[j].attempt = failures[i].attempt
                 /\ delays[j].ms = failures[i].attempt * 2000
      /\ Len(delays) <= Len(failures)

\* C27: getAiSummary never throws, so the request it summarizes is answered
\* 200; for missing or empty rows it returns its fixed message without any
\* LLM call; and when every LLM attempt failed it returns its fallback
\* message.
C27_SummaryNeverRaises ==
  summary # NoSummary =>
    /\ ~summary.threw
    /\ response = [status |-> 200, error |-> ""]
    /\ summary.calls <= (IF aiVersion = "retrying" THEN summaryMaxRetries ELSE 1)
    /\ resultRows \in {NoData, 0} =>
          /\ summary.calls = 0
          /\ summary.value =
               IF aiVersion = "retrying"
               THEN <<"Query executed successfully but returned no results.">>
               ELSE <<"No results found in the database matching your criteria.">>
    /\ (summary.calls > 0 /\ summary.failures = summary.calls) =>
          summary.value =
            IF aiVersion = "retrying"
            THEN <<"Query executed successfully and returned", resultRows,
                   "result(s). Please review the data below.">>
            ELSE <<"Query executed successfully. Please check the data table for details.">>

\* the retrying getAiSummary has settled after two failed LLM calls
C27_Witness ==
  /\ aiVersion = "retrying"
  /\ summary.calls = 2
  /\ summary.failures = 2
  /\ reqPc = "responded"

\* the key of a fact row together with what a repeated load must not touch
FactIdentity(f) ==
  [session_id |-> f.session_id, instructor_id |-> f.instructor_id, class_id |-> f.class_id,
   domain_id |-> f.domain_id, topic_id |-> f.topic_id, pst_date |-> f.pst_date]

\* every dimension value and every session is stored at most once
StoredOnce(t) ==
  /\ \A a, b \in t.dim_domain : a.domain_name = b.domain_name => a = b
  /\ \A a, b \in t.dim_topic : a.topic_code = b.topic_code => a = b
  /\ \A a, b \in t.dim_instructor :
        (a.first_name = b.first_name /\ a.last_name = b.last_name /\ a.region = b.region)
          => a = b
  /\ \A a, b \in t.dim_class : (a.class_name = b.class_name /\ a.region = b.region) => a = b
  /\ \A a, b \in t.fact_sessions :
        ( /\ a.instructor_id = b.instructor_id
          /\ a.class_id = b.class_id
          /\ a.pst_date = b.pst_date
          /\ a.topic_id = b.topic_id ) => a = b

\* C28: when the sheet has been loaded a second time, the tables are as the
\* first load left them; at every point each dimension value and each
\* (instructor, class, pst_date, topic) session is stored once; a row of the
\* second load changes nothing but the metrics of fact rows that exist; and
\* a row without first name or session date changes nothing.
C28_LoadTwiceSameAsOnce ==
  [][ /\ etlPc' = "done" => tables' = afterFirstRun'
      /\ StoredOnce(tables')
      /\ (etlPc = "loading" /\ etlRow' = etlRow + 1 /\ etlRun = 2) =>
            /\ \A d \in {"dim_domain", "dim_topic", "dim_instructor", "dim_class"} :
                  tables'[d] = tables[d]
            /\ tables'.nextId = tables.nextId
            /\ { FactIdentity(f) : f \in tables'.fact_sessions }
                  = { FactIdentity(f) : f \in tables.fact_sessions }
      /\ ( /\ etlPc = "loading"
            /\ etlRow' = etlRow + 1
            /\ (sheet[etlRow].firstName = "" \/ sheet[etlRow].date = NoDate) ) =>
            tables' = tables ]_vars

\* a sheet of two rows for the same session with different ratings has been
\* loaded twice: one fact row, carrying the rating of the later row
C28_Witness ==
  /\ etlPc = "done"
  /\ Len(sheet) = 2
  /\ sheet[1].average # sheet[2].average
  /\ Cardinality(tables.fact_sessions) = 1
  /\ \A f \in tables.fact_sessions : f.average_rating = sheet[2].average
  /\ \A i \in 1..2 : sheet[i].firstName # "" /\ sheet[i].date # NoDate

(* -------------- generatePartialAliases (generate_aliases.mjs) ------------ *)

\* the characters of a canonical name: an upper-case letter, two lower-case
\* letters and the space
NameChars == {"A", "b", "c", " "}
UpperChars == {"A"}

\* row.name.trim() of a row fetchAndGenerateAliases does not skip: not empty,
\* no space at either end
Names ==
  { name \in UNION { [1..n -> NameChars] : n \in 1..MaxNameLen } :
      name[1] # " " /\ name[Len(name)] # " " }

\* String.prototype.toLowerCase
toLowerCase(str) == [i \in 1..Len(str) |-> IF str[i] = "A" THEN "a" ELSE str[i]]

\* canonicalName.split(/\s+/).filter(p => p.length > 0)
RECURSIVE Parts(_)
Parts(str) ==
  IF str = <<>> THEN <<>>
  ELSE IF str[1] = " " THEN Parts(Tail(str))
  ELSE LET spaces == { i \in 1..Len(str) : str[i] = " " }
           n == IF spaces = {} THEN Len(str)
                ELSE (CHOOSE i \in spaces : \A j \in spaces : i <= j) - 1
       IN  <<SubSeq(str, 1, n)>> \o Parts(SubSeq(str, n + 1, Len(str)))

addToArray(set, value) == Append(set, value)

\* Set.prototype.add: a Set keeps insertion order and one copy of a value
add(set, value) ==
  IF \E i \in 1..Len(set) : set[i] = value THEN set ELSE Append(set, value)

\* parts.map(p => p[0]).join('').toLowerCase()
Initials(parts) == toLowerCase([i \in 1..Len(parts) |-> parts[i][1]])

IsNotRedundant(a, canonicalLowercase) == a # canonicalLowercase /\ Len(a) > 0

generatePartialAliases(name) ==
  LET parts == Parts(name)
      lowercaseName == toLowerCase(name)
      withName == add(<<>>, lowercaseName)
      withFirst == add(withName, toLowerCase(parts[1]))
      withLast == add(withFirst, toLowerCase(parts[Len(parts)]))
      withInitials == IF Len(Initials(parts)) >= 2
                      THEN add(withLast, Initials(parts))
                      ELSE withLast
      multi == IF Len(parts) > 1 THEN withInitials ELSE withName
      single == IF Len(parts) = 1 /\ lowercaseName # toLowerCase(name)
                THEN add(multi, lowercaseName)
                ELSE multi
      canonicalLowercase == toLowerCase(name)
  IN  SelectSeq(single, LAMBDA a : IsNotRedundant(a, canonicalLowercase))

\* generatePartialAliases(canonicalName) runs to its return
AliasesReturned ==
  /\ aliasPc = "called"
  /\ aliases' = generatePartialAliases(canonicalName)
  /\ aliasPc' = "returned"
  /\ UNCHANGED <<canonicalName, serverVars, sqlVars, etlVars, uiVars>>

\* fetchAndGenerateAliases has called generatePartialAliases with the
\* trimmed name of a row
InitAliases ==
  /\ ServerIdle
  /\ SqlIdle
  /\ EtlIdle
  /\ UiIdle
  /\ canonicalName \in Names
  /\ aliasPc = "called"
  /\ aliases = <<>>

NextAliases == AliasesReturned

SpecAliases == InitAliases /\ [][NextAliases]_vars

QueryInputs ==
  { <<>>, <<" ">>, <<"ratings">>, <<" ", "ratings", " ">>,
    <<"top", " ", "instructors">> }

\* what renderChart does with the rows: draws a chart, finds no label or
\* value column, or throws
ChartOutcomes == {"drawn", "no_columns", "throws"}

\* the JSON of res.json({ data: rows, summary, sql: sqlQuery }): without rows
\* the summary is getAiSummary's fixed sentence; with rows the summary can be
\* missing and the SQL is a statement
ResultBodies ==
  { b \in [kind : {"result"}, rows : {0, 2}, summary : {"", "text"},
           sql : {"", "SELECT 1"}, chart : ChartOutcomes, error : {""}] :
      /\ b.rows = 0 => b.summary # "" /\ b.chart = "no_columns"
      /\ b.rows > 0 => b.sql # "" }

\* the JSON of an error response: { error: message }, or without a message
ErrorBodies ==
  { [NoBody EXCEPT !.kind = "error", !.error = e] : e \in {"", "llm"} }

\* a body response.json() cannot parse
Unparsable == [NoBody EXCEPT !.kind = "unparsable"]

\* what fetch can resolve with
HttpResponses ==
  { [ok |-> TRUE, body |-> b] : b \in ResultBodies \cup {Unparsable} }
    \cup { [ok |-> FALSE, body |-> b] : b \in ErrorBodies \cup {Unparsable} }

resetUIKeepsError(d) ==
  [d EXCEPT !.summary = "none", !.chart = "none", !.table = "none",
            !.sql = "none"]

resetUI(d) ==
  [d EXCEPT !.error = "none", !.summary = "none", !.chart = "none",
            !.table = "none", !.sql = "none"]

displayError(d, message) ==
  [d EXCEPT !.errorMessage = message, !.error = "block"]

displayResults(d, body) ==
  [d EXCEPT !.summary = IF body.summary # "" THEN "block" ELSE @,
            !.sql = IF body.sql # "" THEN "block" ELSE @,
            !.chart = IF body.rows > 0
                      THEN (IF body.chart = "drawn" THEN "block" ELSE "none")
                      ELSE @,
            !.table = IF body.rows > 0 THEN "block" ELSE @]

\* the finally block of the submit handler
Finally(d) ==
  [d EXCEPT !.loader = "none", !.submitDisabled = FALSE,
            !.arrowHidden = FALSE, !.spinnerHidden = TRUE]

\* the user changes the text of the input
TypeQuery(q) ==
  /\ q # queryInput
  /\ queryInput' = q
  /\ UNCHANGED <<uiPc, requestBody, httpResponse, display, chartInstance,
                 serverVars, sqlVars, etlVars, aliasVars>>

\* the form is submitted (a form whose submit button is disabled is not):
\* the handler runs to its await of fetch, or returns on an empty query
Submit ==
  /\ uiPc = "idle"
  /\ ~display.submitDisabled
  /\ IF trim(queryInput) = <<>>
     THEN UNCHANGED <<uiPc, requestBody, display, chartInstance>>
     ELSE /\ display' = [resetUI(display) EXCEPT !.loader = "flex",
                                                 !.submitDisabled = TRUE,
                                                 !.arrowHidden = TRUE,
                                                 !.spinnerHidden = FALSE]
          /\ chartInstance' = FALSE
          /\ requestBody' = trim(queryInput)
          /\ uiPc' = "fetching"
  /\ UNCHANGED <<queryInput, httpResponse, serverVars, sqlVars, etlVars,
                 aliasVars>>

\* fetch resolves: response.json() is awaited
FetchResolves(resp) ==
  /\ uiPc = "fetching"
  /\ httpResponse' = resp
  /\ uiPc' = "reading"
  /\ UNCHANGED <<queryInput, requestBody, display, chartInstance,
                 serverVars, sqlVars, etlVars, aliasVars>>

\* fetch rejects (no connection): catch, then finally
FetchRejects ==
  /\ uiPc = "fetching"
  /\ display' = Finally(displayError(display, "Failed to fetch"))
  /\ requestBody' = <<>>
  /\ uiPc' = "idle"
  /\ UNCHANGED <<queryInput, httpResponse, chartInstance,
                 serverVars, sqlVars, etlVars, aliasVars>>

\* response.json() settles: the error of the body is thrown and caught, or
\* the results are displayed; then finally
BodySettles ==
  /\ uiPc = "reading"
  /\ LET body == httpResponse.body
         shown ==
           IF body.kind = "unparsable"
           THEN displayError(display, "Unexpected token")
           ELSE IF ~httpResponse.ok
           THEN displayError(display, IF body.error # "" THEN body.error
                                      ELSE "An unknown error occurred.")
           ELSE displayResults(display, body)
     IN  /\ display' = Finally(shown)
         /\ chartInstance' = ( /\ httpResponse.ok
                               /\ body.kind = "result"
                               /\ body.rows > 0
                               /\ body.chart = "drawn" )
  /\ httpResponse' = NoHttpResponse
  /\ requestBody' = <<>>
  /\ uiPc' = "idle"
  /\ UNCHANGED <<queryInput, serverVars, sqlVars, etlVars, aliasVars>>

FetchSettles == (\E resp \in HttpResponses : FetchResolves(resp)) \/ FetchRejects

\* the page has been loaded
InitUi ==
  /\ ServerIdle
  /\ SqlIdle
  /\ EtlIdle
  /\ AliasIdle
  /\ UiIdle

NextUi ==
  \/ \E q \in QueryInputs : TypeQuery(q)
  \/ Submit
  \/ \E resp \in HttpResponses : FetchResolves(resp)
  \/ FetchRejects
  \/ BodySettles

\* a request the page has sent settles, and so does the read of its body
SpecUi ==
  InitUi /\ [][NextUi]_vars /\ WF_vars(FetchSettles) /\ WF_vars(BodySettles)

InFlight == uiPc \in {"fetching", "reading"}

ResultsDisplayed ==
  \/ display.summary = "block"
  \/ display.chart = "block"
  \/ display.table = "block"
  \/ display.sql = "block"

ErrorDisplayed == display.error = "block"

\* C30: a submission of a non-empty query disables the button and shows the
\* loader, and they stay so while the request is in flight; when the request
\* settles, however it does, the loader is hidden, the button enabled, and
\* either the results or the error message is displayed, never both; and a
\* request in flight leads to that.
C30_LoaderAndButtonFollowRequest ==
  /\ [][ (uiPc = "idle" /\ trim(queryInput) # <<>> /\ display' # display) =>
            InFlight' ]_vars
  /\ [](InFlight => display.submitDisabled /\ display.loader = "flex")
  /\ [](~(ResultsDisplayed /\ ErrorDisplayed))
  /\ [][ (InFlight /\ uiPc' = "idle") =>
            /\ display'.loader = "none"
            /\ ~display'.submitDisabled
            /\ ResultsDisplayed' # ErrorDisplayed' ]_vars
  /\ InFlight ~> ( /\ uiPc = "idle"
                   /\ display.loader = "none"
                   /\ ~display.submitDisabled )

\* a request that failed was followed by one that succeeded: the table is
\* shown, the error container (still holding the old message) is hidden
C30_Witness ==
  /\ uiPc = "idle"
  /\ display.table = "block"
  /\ display.error = "none"
  /\ display.errorMessage = "Failed to fetch"
  /\ display.loader = "none"
  /\ ~display.submitDisabled

====
